---- MODULE Spec2Model ----
(***************************************************************************)
(* strotui: the Text widget (src/src/widgets/text.rs) and the Panel widget *)
(* (src/src/widgets/panel.rs).                                             *)
(*                                                                         *)
(* A text is a sequence of bytes.  Byte offsets are 0-based as in the      *)
(* source; a line is the byte range <<start, end>> (end exclusive) of the  *)
(* &str slice the source pushes.  The two-byte character U+00E9 is the     *)
(* pair of bytes "xC3" (lead) "xA9" (continuation).                        *)
(***************************************************************************)
EXTENDS Integers, Sequences, FiniteSets, TLC

VARIABLES
    text,       \* Text.text, as bytes
    wrap,       \* Text.wrap
    op,         \* the last call made on the widget under test
    arg,        \* its argument: a width (get_height) or a Rect (render_ref)
    ret,        \* what the call did: status, lines, cursor positions, paints
    panel,      \* the PanelBuilder / Panel: block, scrollbar, children
    checks,     \* whether the build has overflow checks (debug) or not (release)
    pret        \* what Panel::render_ref did

vars == <<text, wrap, op, arg, ret, panel, checks, pret>>

----------------------------------------------------------------------------
(* Bounds *)

MaxLen == 3        \* characters in a text
MaxTop == 1        \* top row of a rectangle handed to Text::render_ref
MaxHeight == 2     \* height of a rectangle handed to Text::render_ref
MaxChildren == 2   \* children added to a panel
MaxPanelH == 5     \* height of the outer rectangle of a panel

MaxWidth == MaxLen + 1   \* widths reach past the longest single-byte text

Min(a, b) == IF a < b THEN a ELSE b

\* u16 arithmetic wraps modulo 2^16 when the build has no overflow checks
U16 == 65536

\* n as u16
AsU16(n) == n % U16

----------------------------------------------------------------------------
(* Strings *)

Chars == {"a", " ", "\n", "e'"}

\* String::from / to_string: the UTF-8 bytes of a sequence of characters.
RECURSIVE Encode(_)
Encode(cs) ==
    IF cs = <<>> THEN <<>>
    ELSE (IF Head(cs) = "e'" THEN <<"xC3", "xA9">> ELSE <<Head(cs)>>)
         \o Encode(Tail(cs))

\* str::len: the number of bytes.
StrLen(t) == Len(t)

\* str::is_char_boundary
IsCharBoundary(t, i) ==
    \/ i = 0
    \/ i = Len(t)
    \/ i > 0 /\ i < Len(t) /\ t[i + 1] # "xA9"

\* &t[from..to] succeeds (otherwise the slice panics)
CanSlice(t, from, to) ==
    /\ from <= to
    /\ to <= Len(t)
    /\ IsCharBoundary(t, from)
    /\ IsCharBoundary(t, to)

\* line.find(c) on the slice t[from..to]: offset within the slice, or -1
Find(t, from, to, c) ==
    LET hits == {i \in from..(to - 1) : t[i + 1] = c}
    IN IF hits = {} THEN -1
       ELSE (CHOOSE i \in hits : \A j \in hits : i <= j) - from

\* line.rfind(c) on the slice t[from..to]: offset within the slice, or -1
RFind(t, from, to, c) ==
    LET hits == {i \in from..(to - 1) : t[i + 1] = c}
    IN IF hits = {} THEN -1
       ELSE (CHOOSE i \in hits : \A j \in hits : i >= j) - from

\* t[from..].starts_with(c)
StartsWith(t, from, c) == from < Len(t) /\ t[from + 1] = c

\* t.chars().nth(n): the n-th CHARACTER (not byte), "none" past the end
CharsNth(t, n) ==
    LET cs == SelectSeq(t, LAMBDA b : b # "xA9")
    IN IF n < Len(cs) THEN cs[n + 1] ELSE "none"

\* number of characters (columns) of the slice t[from..to]
Columns(t, from, to) ==
    Cardinality({i \in from..(to - 1) : t[i + 1] # "xA9"})

----------------------------------------------------------------------------
(* Text::get_lines and its policies.  A result is                          *)
(*   status : "ok", "panic" (a slice off a char boundary, an arithmetic    *)
(*            overflow, todo!()) or "hang" (the loop repeats its state)    *)
(*   lines  : the byte ranges pushed so far                                *)
(*   cursor : pos at the start of every loop iteration                     *)

Policies == {"Truncate", "TruncateWithEllipsis", "Wrapped", "WrappedWords"}

Result(s, ls, cur) == [status |-> s, lines |-> ls, cursor |-> cur]

get_lines_truncate(t, width) ==
    LET end == Min(StrLen(t), width)
    IN IF CanSlice(t, 0, end)
       THEN Result("ok", << <<0, end>> >>, <<>>)
       ELSE Result("panic", <<>>, <<>>)

\* the while loop of lines 74-91, entered with the cursor at pos
RECURSIVE WrappedLoop(_, _, _, _, _)
WrappedLoop(t, width, pos, lines, cursor) ==
    LET len == StrLen(t)
        end == Min(pos + width, len)
        cur == Append(cursor, pos)
        to  == Find(t, pos, end, "\n")
    IN IF pos > len THEN Result("ok", lines, cur)
       ELSE IF ~CanSlice(t, pos, end) THEN Result("panic", lines, cur)
       ELSE IF pos = end THEN Result("ok", lines, cur)
       ELSE IF to # -1
            THEN WrappedLoop(t, width, pos + to + 1,
                             Append(lines, <<pos, pos + to>>), cur)
            ELSE WrappedLoop(t, width, end, Append(lines, <<pos, end>>), cur)

get_lines_wrapped(t, width) == WrappedLoop(t, width, 0, <<>>, <<>>)

\* while pos < self.text.len() && self.text.chars().nth(pos) == Some(' ')
RECURSIVE SkipSpaces(_, _)
SkipSpaces(t, pos) ==
    IF pos < StrLen(t) /\ CharsNth(t, pos) = " "
    THEN SkipSpaces(t, pos + 1)
    ELSE pos

\* a break that never looks for a space: the window's end
BreakPointAtWindowEnd(t, pos, end) == end

\* the `to` of lines 110-114
BreakPoint(t, pos, end) ==
    IF StrLen(t) = end \/ StartsWith(t, end, " ")
    THEN end
    ELSE LET y == RFind(t, pos, end, " ")
         IN IF y # -1 THEN pos + y ELSE end

\* a cursor left on the newline instead of past it
AfterNewlineKept(pos, to) == pos + to

\* pos += to + 1 of line 118
AfterNewline(pos, to) == pos + to + 1

\* the while loop of lines 102-129, entered with the cursor at pos; an
\* iteration that leaves the cursor where it was repeats forever ("hang")
RECURSIVE WordsLoop(_, _, _, _, _)
WordsLoop(t, width, pos, lines, cursor) ==
    LET len == StrLen(t)
        end == Min(pos + width, len)
        cur == Append(cursor, pos)
        to  == BreakPoint(t, pos, end)
        nl  == Find(t, pos, end, "\n")
        nxt == IF nl # -1 THEN AfterNewline(pos, nl) ELSE SkipSpaces(t, to)
        ls  == IF nl # -1 THEN Append(lines, <<pos, pos + nl>>)
               ELSE Append(lines, <<pos, to>>)
    IN IF pos > len THEN Result("ok", lines, cur)
       ELSE IF ~CanSlice(t, pos, end) THEN Result("panic", lines, cur)
       ELSE IF pos = end THEN Result("ok", lines, cur)
       ELSE IF nl = -1 /\ ~CanSlice(t, pos, to) THEN Result("panic", lines, cur)
       ELSE IF nxt = pos THEN Result("hang", ls, cur)
       ELSE WordsLoop(t, width, nxt, ls, cur)

get_lines_wrapped_words(t, width) == WordsLoop(t, width, 0, <<>>, <<>>)

get_lines(t, w, width) ==
    CASE w = "Truncate" -> get_lines_truncate(t, width)
      [] w = "TruncateWithEllipsis" -> get_lines_truncate(t, width)
      [] w = "Wrapped" -> get_lines_wrapped(t, width)
      [] w = "WrappedWords" -> get_lines_wrapped_words(t, width)
      [] OTHER -> Result("panic", <<>>, <<>>)     \* todo!()

\* get_height: self.get_lines(width).len() as u16, when get_lines returns
get_height(t, w, width) == AsU16(Len(get_lines(t, w, width).lines))

----------------------------------------------------------------------------
(* Rect (ratatui::layout::Rect), as the source uses it *)

Rect(x, y, width, height) == [x |-> x, y |-> y, width |-> width, height |-> height]
Left(r) == r.x
Top(r) == r.y
Right(r) == r.x + r.width
Bottom(r) == r.y + r.height

----------------------------------------------------------------------------
(* impl WidgetRef for Text: render_ref.  A paint is one buf.set_stringn    *)
(* call: the cell it starts at, the index of the line it paints and the    *)
(* number of columns it writes (at most max_width).                        *)

Paint(x, y, line, cols) == [x |-> x, y |-> y, line |-> line, cols |-> cols]

Rendered(s, r, ps) ==
    [status |-> s, lines |-> r.lines, cursor |-> r.cursor, paints |-> ps]

\* lines 163-182: the TruncateWithEllipsis branch, entered with one line
\* whose length is the width
EllipsisBranch(t, area, r) ==
    LET width == Right(area) - Left(area)
    IN IF width < 3 THEN Rendered("panic", r, <<>>)      \* width as usize - 3
       ELSE IF ~CanSlice(t, 0, width - 3) THEN Rendered("panic", r, <<>>)
       ELSE Rendered("ok", r,
                << Paint(Left(area), Top(area), 0,
                         Min(Columns(t, 0, width - 3), width)),
                   Paint(Left(area) + width - 3, Top(area), 0, 3) >>)

\* the filter of line 187
LineVisible(area, y) == y + Top(area) < Bottom(area)

\* lines 184-202
PaintLines(t, area, r) ==
    LET width == Right(area) - Left(area)
        shown == SelectSeq([i \in 1..Len(r.lines) |-> i - 1],
                           LAMBDA y : LineVisible(area, y))
    IN [k \in 1..Len(shown) |->
          LET y == shown[k]
              ln == r.lines[y + 1]
          IN Paint(Left(area), Top(area) + y, y,
                   Min(Columns(t, ln[1], ln[2]), width))]

\* lines 163-202, with the lines of line 161 in hand
RenderLines(t, w, area, r) ==
    IF r.status # "ok" THEN Rendered(r.status, r, <<>>)
    ELSE IF w = "TruncateWithEllipsis"
            /\ r.lines[1][2] - r.lines[1][1] = Right(area) - Left(area)
         THEN EllipsisBranch(t, area, r)
         ELSE Rendered("ok", r, PaintLines(t, area, r))

text_render_ref(t, w, area) ==
    RenderLines(t, w, area, get_lines(t, w, Right(area) - Left(area)))

----------------------------------------------------------------------------
(* The Text widget under test *)

Texts == UNION {[1..n -> Chars] : n \in 0..MaxLen}

TextRects ==
    {Rect(0, y, w, h) : y \in 0..MaxTop, w \in 0..MaxWidth, h \in 0..MaxHeight}

NoPanel == [title |-> FALSE, borders |-> "unset", padding |-> "unset",
            scrollbar |-> TRUE,
            children |-> <<>>]
NoCall == [status |-> "none"]

\* Text::new_with_wrap
Init ==
    /\ text \in {Encode(cs) : cs \in Texts}
    /\ wrap \in Policies
    /\ op = "new"
    /\ arg = 0
    /\ ret = NoCall
    /\ panel = NoPanel
    /\ checks = TRUE     \* render_ref's width - 3 fails in either build
    /\ pret = NoCall

\* Text::get_height(width)
GetHeight ==
    \E width \in 0..MaxWidth :
        /\ op' = "get_height"
        /\ arg' = width
        /\ ret' = Rendered(get_lines(text, wrap, width).status,
                           get_lines(text, wrap, width), <<>>)
        /\ UNCHANGED <<text, wrap, panel, checks, pret>>

\* Text::render_ref(area, buf)
RenderText ==
    \E area \in TextRects :
        /\ op' = "render_ref"
        /\ arg' = area
        /\ ret' = text_render_ref(text, wrap, area)
        /\ UNCHANGED <<text, wrap, panel, checks, pret>>

Next == GetHeight \/ RenderText

Spec == Init /\ [][Next]_vars

----------------------------------------------------------------------------
(* Panel *)

\* PanelBuilder::build: the block exists when there is a title; its borders
\* default to Borders::ALL and its padding to Padding::symmetric(2, 1)
HasBlock(p) == p.title
PadH(p) == IF p.padding = "unset" THEN 2 ELSE 0
PadV(p) == IF p.padding = "unset" THEN 1 ELSE 0

Sat(n) == IF n < 0 THEN 0 ELSE n

\* borders.unwrap_or(Borders::ALL) of line 62
HasBorders(p) == p.borders # "NONE"

\* Block::inner for Borders::ALL or Borders::NONE, a title in the top row and
\* a symmetric padding: every step saturates.  The title keeps the top row
\* also without borders.
BlockInner(p, area) ==
    LET x1 == IF HasBorders(p) THEN Min(area.x + 1, Right(area)) ELSE area.x
        w1 == IF HasBorders(p) THEN Sat(area.width - 1) ELSE area.width
        y1 == Min(area.y + 1, Bottom(area))
        h1 == Sat(area.height - 1)
        w2 == IF HasBorders(p) THEN Sat(w1 - 1) ELSE w1
        h2 == IF HasBorders(p) THEN Sat(h1 - 1) ELSE h1
    IN Rect(x1 + PadH(p), y1 + PadV(p),
            Sat(w2 - (PadH(p) + PadH(p))), Sat(h2 - (PadV(p) + PadV(p))))

render_outer(p, area) == IF HasBlock(p) THEN BlockInner(p, area) ELSE area

\* a child given all the rows it asks for
ClampHeightNone(h, area, y) == h

\* line 109: child.get_height(width).min(area.bottom() - y as u16)
ClampHeight(h, area, y) == Min(h, Bottom(area) - y)

\* One pass of the loop of render_children per child.  A step records the
\* cursor y the child was met at, the height it was given and, when it was
\* rendered, its rectangle.
Stacked(s, y, steps, ps, uf) ==
    [status |-> s, y |-> y, steps |-> steps, paints |-> ps, underflow |-> uf]

RECURSIVE ChildrenLoop(_, _, _, _, _, _, _)

\* lines 111-118, with the child's clamped height in hand: the child is
\* rendered when y <= area.bottom(), then y += height
StackChild(p, area, dbg, i, y, steps, ps, height, under, rr) ==
    IF y <= Bottom(area) /\ rr.status # "ok"
    THEN Stacked(rr.status, y,
                 Append(steps, [child |-> p.children[i], y |-> y,
                                height |-> height, rendered |-> TRUE,
                                area |-> Rect(Left(area), y,
                                              Right(area) - Left(area),
                                              height)]),
                 ps, under)
    ELSE ChildrenLoop(p, area, dbg, i + 1, y + height,
                      Append(steps, [child |-> p.children[i], y |-> y,
                                     height |-> height,
                                     rendered |-> y <= Bottom(area),
                                     area |-> Rect(Left(area), y,
                                                   Right(area) - Left(area),
                                                   height)]),
                      IF y <= Bottom(area) THEN ps \o rr.paints ELSE ps)

\* line 109, with the child's lines in hand.  area.bottom() - y as u16
\* underflows when y is below the bottom: a panic with overflow checks, a
\* wrapped value without.
MeasureChild(p, area, dbg, i, y, steps, ps, hr) ==
    IF hr.status # "ok" THEN Stacked(hr.status, y, steps, ps, FALSE)
    ELSE IF y > Bottom(area) /\ dbg THEN Stacked("panic", y, steps, ps, TRUE)
    ELSE IF y > Bottom(area)
    THEN StackChild(p, area, dbg, i, y, steps, ps,
                    Min(AsU16(Len(hr.lines)), Bottom(area) - y + U16), TRUE,
                    Rendered("ok", hr, <<>>))
    ELSE StackChild(p, area, dbg, i, y, steps, ps,
                    ClampHeight(AsU16(Len(hr.lines)), area, y), FALSE,
                    text_render_ref(p.children[i].text, p.children[i].wrap,
                        Rect(Left(area), y, Right(area) - Left(area),
                             ClampHeight(AsU16(Len(hr.lines)), area, y))))

\* the loop of lines 108-119, from child i on; a wrapped underflow of an
\* earlier child stays recorded
ChildrenLoop(p, area, dbg, i, y, steps, ps) ==
    IF i > Len(p.children) THEN Stacked("ok", y, steps, ps, FALSE)
    ELSE MeasureChild(p, area, dbg, i, y, steps, ps,
                      get_lines(p.children[i].text, p.children[i].wrap,
                                Right(area) - Left(area)))

render_children(p, area, dbg) ==
    ChildrenLoop(p, area, dbg, 1, Top(area), <<>>, <<>>)

\* line 138
ScrollbarHeight(children_height, display_height) ==
    Sat(children_height - display_height)

\* render_scrollbar.  ext is what Scrollbar::render does with a rectangle
\* whose height wrapped around: it returns ("ok") or fails ("panic").
render_scrollbar(p, area, dbg, children_height, display_height, ext) ==
    LET h == Bottom(area) - Top(area) - 2
        under == h < 0
        scrollbar_area ==
            Rect(Left(area), Top(area) + 1, Right(area) - Left(area),
                 IF under THEN h + U16 ELSE h)
    IN IF ~p.scrollbar
       THEN [status |-> "ok", underflow |-> FALSE, drawn |-> FALSE]
       ELSE IF under /\ dbg
       THEN [status |-> "panic", underflow |-> TRUE, drawn |-> FALSE]
       ELSE [status |-> IF under THEN ext ELSE "ok", underflow |-> under,
             drawn |-> TRUE, area |-> scrollbar_area,
             content_length |->
                 ScrollbarHeight(children_height, display_height)]

\* what render_ref leaves behind, given the outcome st of the stacking pass
\* and sb of the scrollbar pass (not reached when the stacking pass failed)
PanelOutcome(area, inner, st, sb) ==
    IF st.status # "ok"
    THEN [status |-> st.status, outer |-> area, inner |-> inner,
          steps |-> st.steps, paints |-> st.paints, stacked |-> FALSE,
          stack_underflow |-> st.underflow,
          underflow |-> st.underflow, scrollbar |-> [drawn |-> FALSE]]
    ELSE [status |-> sb.status, outer |-> area, inner |-> inner,
          steps |-> st.steps, paints |-> st.paints, stacked |-> TRUE,
          children_height |-> st.y,
          display_height |-> Bottom(inner) - Top(inner),
          stack_underflow |-> st.underflow,
          underflow |-> st.underflow \/ sb.underflow, scrollbar |-> sb]

\* lines 152-159, with inner and the stacking pass's outcome in hand
ScrollbarPass(p, area, dbg, ext, inner, st) ==
    PanelOutcome(area, inner, st,
        render_scrollbar(p, area, dbg, st.y, Bottom(inner) - Top(inner), ext))

\* lines 152-159, with inner in hand
StackingPass(p, area, dbg, ext, inner) ==
    ScrollbarPass(p, area, dbg, ext, inner, render_children(p, inner, dbg))

\* impl WidgetRef for Panel: render_ref
panel_render_ref(p, area, dbg, ext) ==
    StackingPass(p, area, dbg, ext, render_outer(p, area))

\* the children a panel is given
Child(t, w) == [text |-> t, wrap |-> w]
ChildPool ==
    { Child(Encode(<<"a">>), "WrappedWords"),
      Child(Encode(<<"a", " ", "a", " ", "a">>), "WrappedWords"),
      Child(Encode(<<"a", "a", "a", "a">>), "TruncateWithEllipsis") }

\* outer widths: none, narrower and wider than the decoration's inset (2 for
\* the border and 4 for the default padding)
PanelWidths == {0, 3, 7}

\* outer top rows: at the buffer's top and below it
PanelTops == {0, 1}

PanelRects ==
    {Rect(0, y, w, h) : y \in PanelTops, w \in PanelWidths,
                        h \in 0..MaxPanelH}

\* Panel::new_builder, title, borders (unset, so Borders::ALL, or
\* Borders::NONE), padding (unset, so Padding::symmetric(2, 1), or
\* Padding::symmetric(0, 0)) and the pub field scrollbar.  Without a title
\* build() makes no block, whatever borders and padding are.
PanelInit ==
    /\ text = <<>>
    /\ wrap = "WrappedWords"
    /\ op = "new"
    /\ arg = 0
    /\ ret = NoCall
    /\ panel \in {p \in [title : BOOLEAN, borders : {"unset", "NONE"},
                         padding : {"unset", "zero"},
                         scrollbar : BOOLEAN, children : {<<>>}] :
                     ~p.title => p.borders = "unset" /\ p.padding = "unset"}
    /\ checks \in BOOLEAN
    /\ pret = NoCall

\* PanelBuilder::add_child / Panel::add_text
AddChild ==
    \E c \in ChildPool :
        /\ Len(panel.children) < MaxChildren
        /\ panel' = [panel EXCEPT !.children = Append(@, c)]
        /\ pret' = NoCall
        /\ UNCHANGED <<text, wrap, op, arg, ret, checks>>

\* what Scrollbar::render may do with the rectangle it is handed: it is only
\* in doubt when the rectangle's height wrapped around
ExtOutcomes(p, area, dbg) ==
    IF p.scrollbar /\ ~dbg /\ Bottom(area) - Top(area) < 2
    THEN {"ok", "panic"}
    ELSE {"ok"}

\* Panel::render_ref(area, buf)
RenderPanel ==
    \E area \in PanelRects :
      \E ext \in ExtOutcomes(panel, area, checks) :
        /\ pret' = panel_render_ref(panel, area, checks, ext)
        /\ UNCHANGED <<text, wrap, op, arg, ret, panel, checks>>

PanelNext == AddChild \/ RenderPanel

PanelSpec == PanelInit /\ [][PanelNext]_vars

----------------------------------------------------------------------------
(* Properties of the Text widget (checked under Spec) *)

SingleByte(t) == \A i \in 1..Len(t) : t[i] \notin {"xC3", "xA9"}
Blank(b) == b \in {" ", "\n"}

\* the width the last call laid the text out at
CallWidth == IF op = "get_height" THEN arg ELSE arg.width
Called == op \in {"get_height", "render_ref"}

\* C3: for a text with multi-byte characters and a width >= 1, get_lines
\* returns (no panic, no endless loop) and every line starts and ends on a
\* character boundary of the text.
C3_MultiByteLinesOnCharBoundaries ==
    (op = "get_height" /\ ~SingleByte(text) /\ arg >= 1) =>
        /\ ret.status = "ok"
        /\ \A i \in 1..Len(ret.lines) :
              /\ IsCharBoundary(text, ret.lines[i][1])
              /\ IsCharBoundary(text, ret.lines[i][2])

\* C6: at width 0 the height query and the render into a rectangle of width 0
\* both complete, for every text and every implemented policy.
C6_WidthZeroCompletes ==
    (Called /\ CallWidth = 0) => ret.status = "ok"

\* C5: render_ref paints line i only at row area.top + i and only when that
\* row is above area.bottom, also into a rectangle of height 0.
C5_PaintsOnlyAboveBottom ==
    (op = "render_ref" /\ ret.status = "ok") =>
        \A k \in 1..Len(ret.paints) :
            /\ ret.paints[k].y = Top(arg) + ret.paints[k].line
            /\ ret.paints[k].y < Bottom(arg)

\* the byte before offset e and the byte at offset e are both neither a space
\* nor a newline: a line that ends at e is broken inside a word
MidWord(t, e) ==
    /\ e > 0
    /\ e < Len(t)
    /\ ~Blank(t[e])
    /\ ~Blank(t[e + 1])

\* C7: WrapWords on a single-byte text at width w >= 1: every line is at most
\* w bytes long, and a line is broken inside a word only when the w-byte
\* window it was taken from holds no space and no newline; the line is then
\* exactly w bytes long and the next line starts where it ended.
C7_WordsHardBreakOnlyInUnbrokenWindow ==
    (op = "get_height" /\ wrap = "WrappedWords" /\ SingleByte(text) /\ arg >= 1)
    =>
        \A i \in 1..Len(ret.lines) :
            LET s == ret.lines[i][1]
                e == ret.lines[i][2]
                w == Min(s + arg, Len(text))
            IN /\ e - s <= arg
               /\ MidWord(text, e) =>
                    /\ \A j \in (s + 1)..w : ~Blank(text[j])
                    /\ e - s = arg
                    /\ i < Len(ret.lines)
                    /\ ret.lines[i + 1][1] = e

\* a WrapWords call broke a line inside a word
C7_Witness ==
    /\ op = "get_height" /\ wrap = "WrappedWords" /\ SingleByte(text)
    /\ arg >= 1
    /\ \E i \in 1..Len(ret.lines) : MidWord(text, ret.lines[i][2])

\* C8: WrapWords skips the run of spaces after every break, so no line after
\* the first begins with a space.
C8_NoLaterLineBeginsWithSpace ==
    (op = "get_height" /\ wrap = "WrappedWords" /\ SingleByte(text) /\ arg >= 1)
    =>
        \A i \in 2..Len(ret.lines) :
            ret.lines[i][1] < Len(text) => text[ret.lines[i][1] + 1] # " "

\* C9: on a single-byte text at width w >= 1 the WrapExact and WrapWords loops
\* end: the cursor strictly advances from one iteration to the next, the loop
\* leaves only with the cursor at the end of the text, and no line holds a
\* newline.
C9_WrapLoopsAdvanceAndEnd ==
    (Called /\ wrap \in {"Wrapped", "WrappedWords"} /\ SingleByte(text)
            /\ CallWidth >= 1)
    =>
        /\ ret.status = "ok"
        /\ \A k \in 1..(Len(ret.cursor) - 1) : ret.cursor[k] < ret.cursor[k + 1]
        /\ ret.cursor[Len(ret.cursor)] = StrLen(text)
        /\ \A i \in 1..Len(ret.lines) :
              \A j \in (ret.lines[i][1] + 1)..ret.lines[i][2] : text[j] # "\n"

\* a wrap loop ran three iterations or more over a text with a space and a
\* newline
C9_Witness ==
    /\ Called /\ wrap \in {"Wrapped", "WrappedWords"} /\ SingleByte(text)
    /\ CallWidth >= 1
    /\ \E i, j \in 1..Len(text) : text[i] = " " /\ text[j] = "\n"
    /\ Len(ret.cursor) >= 3

----------------------------------------------------------------------------
(* Properties of the Panel (checked under PanelSpec) *)

PanelRendered == pret.status # "none"

\* the rows the children need at the given width, unclamped
RECURSIVE SumHeights(_, _)
SumHeights(cs, width) ==
    IF cs = <<>> THEN 0
    ELSE get_height(Head(cs).text, Head(cs).wrap, width)
         + SumHeights(Tail(cs), width)

Max(a, b) == IF a > b THEN a ELSE b

\* C1: the content height the stacking pass returns, and the scrollbar pass
\* uses, is the sum of the children's unclamped heights at the inner width.
C1_ContentHeightIsUnclampedSum ==
    (PanelRendered /\ pret.stacked) =>
        pret.children_height = SumHeights(panel.children, pret.inner.width)

\* C2: the content length handed to the scrollbar is
\* max(0, contentHeight - viewportHeight); it is 0 whenever the children's
\* heights sum to at most the inner rectangle's height, wherever the outer
\* rectangle is and whatever the decoration.
C2_ThumbIsContentMinusViewport ==
    (PanelRendered /\ pret.scrollbar.drawn /\ ~pret.underflow) =>
        pret.scrollbar.content_length =
            Max(0, SumHeights(panel.children, pret.inner.width)
                   - pret.inner.height)

\* C4: with the scrollbar flag set, a render into an outer rectangle of height
\* 0 or 1 completes and no geometry subtraction underflows.
C4_TinyRectRendersWithoutUnderflow ==
    (PanelRendered /\ panel.scrollbar /\ pret.outer.height <= 1) =>
        /\ ~pret.underflow
        /\ pret.stacked => pret.status = "ok"

\* C10: in the stacking pass the cursor y stays within
\* innerRect.top..innerRect.bottom, so innerRect.bottom - y never underflows;
\* the children are met in insertion order; each child's rectangle starts at
\* the row where the previous one ended (the first at innerRect.top), ends at
\* or above innerRect.bottom, and has the inner rectangle's left edge and
\* width.
C10_StackingCursorWithinInner ==
    PanelRendered =>
        /\ ~pret.stack_underflow
        /\ Len(pret.steps) <= Len(panel.children)
        /\ pret.stacked => Len(pret.steps) = Len(panel.children)
        /\ \A k \in 1..Len(pret.steps) :
              LET st == pret.steps[k]
              IN /\ st.child = panel.children[k]
                 /\ Top(pret.inner) <= st.y
                 /\ st.y <= Bottom(pret.inner)
                 /\ st.y + st.height <= Bottom(pret.inner)
                 /\ st.area = Rect(Left(pret.inner), st.y,
                                   pret.inner.width, st.height)
                 /\ st.y = IF k = 1 THEN Top(pret.inner)
                           ELSE Bottom(pret.steps[k - 1].area)

\* two children were stacked and the second was given fewer rows than it needs
C10_Witness ==
    /\ PanelRendered
    /\ pret.stacked
    /\ Len(pret.steps) = 2
    /\ pret.steps[1].height > 0
    /\ pret.steps[2].height <
          get_height(pret.steps[2].child.text, pret.steps[2].child.wrap,
                     pret.inner.width)

====
